---- MODULE Spec2Model ----
(***************************************************************************)
(* A model of bandcamper: the acquisition-and-organisation pipeline of     *)
(* src/bandcamper/bandcamper.py and the metadata extractor / track matcher *)
(* of src/bandcamper/metadata/bandcamp_writer.py.                          *)
(*                                                                         *)
(* The module holds several specifications over one set of variables, one  *)
(* per part of the program:                                                *)
(*   SpecDownload  download_all / download_from_url (strategy engine)      *)
(*   SpecResolve   __init__ / add_url / _add_urls_from_artist              *)
(*   SpecPath      move_file / _sanitize_file_path                         *)
(*   SpecYear      _extract_release_year                                   *)
(*   SpecMatch     _find_matching_track / _fuzzy_match                     *)
(*   SpecPoll      _get_download_url_from_email                            *)
(*   SpecFallback  download_fallback_mp3                                   *)
(*   SpecFree      _free_download, format by format                        *)
(*   SpecExtract   extract_album_metadata                                  *)
(*   SpecPlace     download_from_url from line 404 on: placement,          *)
(*                 _write_metadata_to_files, _download_cover_image         *)
(* A specification leaves the variables of the other parts at their idle   *)
(* values.                                                                 *)
(***************************************************************************)
EXTENDS Integers, Sequences, FiniteSets, TLC

VARIABLES
    \* ---- download_all / download_from_url
    fallback,          \* Bandcamper.fallback
    download_formats,  \* the *download_formats handed to download_all
    todo,              \* URLs of self.urls the loop of download_all has not reached
    batch,             \* "idle" | "running" | "done" | "raised": download_all
    release,           \* what download_from_url did with the URL it handled last
    \* ---- __init__ / add_url
    names,             \* the *urls handed to the constructor
    next_name,         \* index of the identifier add_url handles next
    urls,              \* Bandcamper.urls
    screamer,          \* messages handed to screamer.error during construction
    ctor,              \* "idle" | "running" | "constructed" | "raised"
    \* ---- move_file / _sanitize_file_path
    moved,             \* the last move_file call: its inputs and move_to
    \* ---- _extract_release_year
    extracted,         \* the last _extract_release_year call: page and result
    \* ---- _find_matching_track
    matched,           \* the last _find_matching_track call: inputs and result
    \* ---- _get_download_url_from_email
    timeout,           \* the timeout parameter
    time_sleeping,     \* the local time_sleeping
    msgs,              \* the local msgs: number of messages the mailbox returned
    checks,            \* how many times mailbox.get_messages was called
    poll,              \* "idle" | "post" | "loop" | "returned" | "rejected" | "timed_out"
    \* ---- download_fallback_mp3
    named,             \* the last download_fallback_mp3 call: inputs and names
    \* ---- _free_download
    freed,             \* the last _free_download call: inputs and outcome
    \* ---- extract_album_metadata
    album_metadata,    \* the last extract_album_metadata call: page and result
    \* ---- download_from_url, from the render context to the cover image
    job,               \* destination, templates, release context, art_url
    place_pc,          \* "idle" | "moving" | "metadata" | "cover" | "done" | an exception
    entries,           \* the entries of file_paths the loop has not reached
    context_dict,      \* the dict named context
    new_path,          \* the local new_path, <<>> while it is unbound
    moved_files,       \* the list moved_files
    placed,            \* every move_file call so far: file, context handed in, path
    temp,              \* downloaded files and extracted directories not yet gone
    writes,            \* how each write_metadata_to_file call ended, in order
    success_count,     \* the local success_count of _write_metadata_to_files
    covers,            \* the directories that hold a cover.png, with its content
    cover_log          \* what each _download_cover_image call did, in order

downloadVars == <<fallback, download_formats, todo, batch, release>>
resolveVars  == <<names, next_name, urls, screamer, ctor>>
pathVars     == <<moved>>
yearVars     == <<extracted>>
matchVars    == <<matched>>
pollVars     == <<timeout, time_sleeping, msgs, checks, poll>>
fallbackVars == <<named>>
freeVars     == <<freed>>
extractVars  == <<album_metadata>>
placeVars    == <<job, place_pc, entries, context_dict, new_path, moved_files,
                  placed, temp,
                  writes, success_count, covers, cover_log>>
earlierVars  == <<downloadVars, resolveVars, pathVars, yearVars, matchVars, pollVars>>
laterVars    == <<fallbackVars, freeVars, extractVars, placeVars>>
vars == <<earlierVars, laterVars>>

None == "None"

\* The value of a variable that records the last call of an operation, before
\* any call
NoCall == [called |-> FALSE]

(***************************************************************************)
(* Idle values: what a specification gives the variables it does not use.  *)
(***************************************************************************)
IdleDownload ==
    /\ fallback = FALSE /\ download_formats = {} /\ todo = {}
    /\ batch = "idle" /\ release = NoCall
IdleResolve ==
    /\ names = <<>> /\ next_name = 0 /\ urls = {} /\ screamer = <<>>
    /\ ctor = "idle"
IdlePath == moved = NoCall
IdleYear == extracted = NoCall
IdleMatch == matched = NoCall
IdlePoll ==
    /\ timeout = 0 /\ time_sleeping = 0 /\ msgs = 0 /\ checks = 0
    /\ poll = "idle"

IdleFallback == named = NoCall
IdleFree == freed = NoCall
IdleExtract == album_metadata = NoCall
IdlePlace ==
    /\ job = NoCall /\ place_pc = "idle" /\ entries = <<>>
    /\ context_dict = NoCall
    /\ new_path = <<>> /\ moved_files = <<>> /\ placed = <<>>
    /\ temp = {} /\ writes = <<>>
    /\ success_count = 0 /\ covers = {} /\ cover_log = <<>>
IdleEarlier ==
    IdleDownload /\ IdleResolve /\ IdlePath /\ IdleYear /\ IdleMatch /\ IdlePoll
IdleLater == IdleFallback /\ IdleFree /\ IdleExtract /\ IdlePlace

(***************************************************************************)
(* Generic helpers.                                                        *)
(***************************************************************************)
RECURSIVE SeqsUpTo(_, _)
\* All sequences over S of length 0..n
SeqsUpTo(S, n) ==
    IF n = 0 THEN {<<>>}
    ELSE LET shorter == SeqsUpTo(S, n - 1)
         IN shorter \cup {Append(s, x) : s \in {t \in shorter : Len(t) = n - 1}, x \in S}

Range(s) == {s[i] : i \in 1..Len(s)}

(***************************************************************************)
(*                 download_all  /  download_from_url                      *)
(***************************************************************************)

\* Number of release URLs in self.urls when download_all starts
NumUrls == 2

\* The formats of DOWNLOAD_FORMATS the model requests, in a fixed order
\* (three of the nine; "mp3-128" is the one the fallback procedure yields)
DOWNLOAD_FORMATS == <<"flac", "mp3-128", "mp3-320">>

\* Most tracks of a release that carry a preview stream (track["file"])
MaxPreviews == 2

\* What _get_music_data can meet when it fetches and parses a release page
FetchOutcomes == {"ok", "404", "http_error", "bad_json", "no_data_island"}

\* What _get_download_url_from_email can end with
EmailOutcomes == {"ok", "rejected", "timeout"}

\* The release pages the platform may serve: the fetch outcome and, for a
\* page that parses, the fields of music_data the strategy engine reads,
\* the formats the download page offers, and how the e-mail request ends.
Pages ==
    \* the page cannot be fetched or parsed
    [fetch : FetchOutcomes \ {"ok"}, freeDownloadPage : {FALSE},
     require_email : {FALSE}, email : {"ok"}, downloadable : {{}},
     previews : {0}]
    \cup
    \* a free download page (the e-mail request is not made)
    [fetch : {"ok"}, freeDownloadPage : {TRUE}, require_email : BOOLEAN,
     email : {"ok"}, downloadable : SUBSET {"flac", "mp3-320"},
     previews : 0..MaxPreviews]
    \cup
    \* e-mail gated, the request is rejected or the message never arrives
    [fetch : {"ok"}, freeDownloadPage : {FALSE}, require_email : {TRUE},
     email : EmailOutcomes \ {"ok"}, downloadable : {{}}, previews : {0}]
    \cup
    \* e-mail gated, the message arrives
    [fetch : {"ok"}, freeDownloadPage : {FALSE}, require_email : {TRUE},
     email : {"ok"}, downloadable : SUBSET {"flac", "mp3-320"},
     previews : 0..MaxPreviews]
    \cup
    \* neither: only the preview streams are left
    [fetch : {"ok"}, freeDownloadPage : {FALSE}, require_email : {FALSE},
     email : {"ok"}, downloadable : {{}}, previews : 0..MaxPreviews]

\* _get_music_data as download_from_url sees it: the data, or the exception
\* that leaves it.  A 404 and a JSON decoding error are ValueErrors, another
\* HTTP status an HTTPError; a page without the data-tralbum script makes
\* soup.find(...) None, and subscripting None is a TypeError.
_get_music_data(page) ==
    CASE page.fetch = "ok"             -> [exc |-> None, data |-> page]
      [] page.fetch = "404"            -> [exc |-> "ValueError", data |-> None]
      [] page.fetch = "bad_json"       -> [exc |-> "ValueError", data |-> None]
      [] page.fetch = "http_error"     -> [exc |-> "HTTPError", data |-> None]
      [] page.fetch = "no_data_island" -> [exc |-> "TypeError", data |-> None]

\* _free_download: one entry of downloaded_paths per requested format the
\* download page offers, in the order of the requested formats
_free_download(page, formats) ==
    SelectSeq(DOWNLOAD_FORMATS, LAMBDA f : f \in formats /\ f \in page.downloadable)

\* The "<fmt> download not found" errors _free_download reports (line 194)
FormatsNotFound(page, formats) ==
    [i \in 1..Cardinality(formats \ page.downloadable) |-> "format not found"]

\* download_fallback_mp3: one file per track that has a preview stream
download_fallback_mp3(page) == [i \in 1..page.previews |-> "mp3-128"]

\* _get_download_url_from_email as download_from_url sees it: the exception
\* it raises, if any
EmailException(page) ==
    IF page.email = "ok" THEN None ELSE "ValueError"

\* The result of one download_from_url call
Result(exc, executed, errors, file_paths, page) ==
    [called |-> TRUE, exc |-> exc, executed |-> executed, errors |-> errors,
     file_paths |-> file_paths, page |-> page]

\* The tail of download_from_url (lines 397-402): the extra fallback run for
\* a requested mp3-128 that the chosen strategy has not delivered
ExtendWithMp3(download_mp3, executed, errors, file_paths, page) ==
    IF download_mp3
    THEN Result(None, Append(executed, "download_fallback_mp3"), errors,
                file_paths \o download_fallback_mp3(page), page)
    ELSE Result(None, executed, errors, file_paths, page)

\* A strategy engine that tests the e-mail gate before the free download page
ChooseStrategy_EmailFirst(page, fb, formats, download_mp3) ==
    IF page.require_email
    THEN IF EmailException(page) # None
         THEN Result(EmailException(page), <<"_get_download_url_from_email">>,
                     <<>>, <<>>, page)
         ELSE ExtendWithMp3(download_mp3,
                            <<"_get_download_url_from_email", "_free_download">>,
                            FormatsNotFound(page, formats),
                            _free_download(page, formats), page)
    ELSE IF page.freeDownloadPage
    THEN ExtendWithMp3(download_mp3, <<"_free_download">>,
                       FormatsNotFound(page, formats),
                       _free_download(page, formats), page)
    ELSE IF fb \/ download_mp3
    THEN ExtendWithMp3(FALSE, <<"download_fallback_mp3">>, <<>>,
                       download_fallback_mp3(page), page)
    ELSE Result(None, <<>>, <<>>, <<>>, page)

\* The strategy engine of download_from_url (lines 368-402)
ChooseStrategy(page, fb, formats, download_mp3) ==
    IF page.freeDownloadPage
    THEN ExtendWithMp3(download_mp3, <<"_free_download">>,
                       FormatsNotFound(page, formats),
                       _free_download(page, formats), page)
    ELSE IF page.require_email
    THEN IF EmailException(page) # None
         THEN Result(EmailException(page), <<"_get_download_url_from_email">>,
                     <<>>, <<>>, page)
         ELSE ExtendWithMp3(download_mp3,
                            <<"_get_download_url_from_email", "_free_download">>,
                            FormatsNotFound(page, formats),
                            _free_download(page, formats), page)
    ELSE IF fb \/ download_mp3
    THEN \* download_mp3 is reset after the fallback ran (line 389)
         ExtendWithMp3(FALSE, <<"download_fallback_mp3">>, <<>>,
                       download_fallback_mp3(page), page)
    ELSE IF ~fb
    THEN \* line 390: a silent return
         Result(None, <<>>, <<>>, <<>>, page)
    ELSE Result("ValueError", <<>>, <<>>, <<>>, page)

\* download_from_url (lines 325-402): "mp3-128" is taken out of the requested
\* formats, the music data is fetched (ValueError and HTTPError are caught
\* and reported, anything else propagates), then the strategy engine runs.
download_from_url(page, fb, requested) ==
    LET download_mp3 == "mp3-128" \in requested
        formats == requested \ {"mp3-128"}
        got == _get_music_data(page)
    IN  CASE got.exc = "ValueError" ->
               Result(None, <<>>,
                      <<IF page.fetch = "404" THEN "not found" ELSE "parse error">>,
                      <<>>, page)
          [] got.exc = "HTTPError" ->
               Result(None, <<>>, <<"request error">>, <<>>, page)
          [] got.exc = "TypeError" ->
               Result("TypeError", <<>>, <<>>, <<>>, page)
          [] OTHER -> ChooseStrategy(page, fb, formats, download_mp3)

InitDownload ==
    /\ fallback \in BOOLEAN
    /\ download_formats \in SUBSET Range(DOWNLOAD_FORMATS)
    /\ todo = 1..NumUrls
    /\ batch = "running"
    /\ release = NoCall

\* One turn of the loop of download_all: download_from_url on a URL of
\* self.urls; an exception that leaves download_from_url leaves download_all
download_all ==
    /\ batch = "running"
    /\ \E url \in todo, page \in Pages :
         LET r == download_from_url(page, fallback, download_formats)
         IN  /\ release' = r @@ [url |-> url]
             /\ todo' = todo \ {url}
             /\ batch' = IF r.exc # None THEN "raised" ELSE "running"
    /\ UNCHANGED <<fallback, download_formats>>
    /\ UNCHANGED <<resolveVars, pathVars, yearVars, matchVars, pollVars, laterVars>>

\* The loop of download_all has gone through self.urls
download_all_return ==
    /\ batch = "running"
    /\ todo = {}
    /\ batch' = "done"
    /\ UNCHANGED <<fallback, download_formats, todo, release>>
    /\ UNCHANGED <<resolveVars, pathVars, yearVars, matchVars, pollVars, laterVars>>

NextDownload == download_all \/ download_all_return

SpecInitDownload ==
    InitDownload /\ IdleResolve /\ IdlePath /\ IdleYear /\ IdleMatch /\ IdlePoll
    /\ IdleLater

SpecDownload == SpecInitDownload /\ [][NextDownload]_vars

(***************************************************************************)
(*              __init__  /  add_url  /  _add_urls_from_artist             *)
(***************************************************************************)

\* Number of identifiers handed to the constructor
NumNames == 2

\* Most anchors in the music grid of an artist page
MaxAnchors == 1

\* What the fetch of an artist page can meet in _add_urls_from_artist
ArtistFetchOutcomes == {"ok", "404", "http_error", "no_music_grid"}

\* The identifiers a caller may pass, by what add_url tests on them:
\*   subdomain  BANDCAMP_SUBDOMAIN_REGEX.fullmatch(name)
\*   netloc     BANDCAMP_URL_REGEX.fullmatch(parsed_url.netloc)
\*   custom     _is_valid_custom_domain(url)
\*   root       parsed_url.path.strip("/ ") in ["music", ""]
\* and by what the artist page answers (fetch, anchors), if it is fetched.
Identifiers ==
    \* a bare subdomain
    [subdomain : {TRUE}, netloc : {FALSE}, custom : {FALSE}, root : {TRUE},
     fetch : ArtistFetchOutcomes, anchors : {MaxAnchors}]
    \cup
    \* an artist root given as a URL, on the platform's domain or a custom one
    {id \in [subdomain : {FALSE}, netloc : BOOLEAN, custom : BOOLEAN,
             root : {TRUE}, fetch : ArtistFetchOutcomes, anchors : {MaxAnchors}] :
        id.netloc \/ id.custom}
    \cup
    \* a release URL, on the platform's domain or a custom one
    {id \in [subdomain : {FALSE}, netloc : BOOLEAN, custom : BOOLEAN,
             root : {FALSE}, fetch : {"ok"}, anchors : {0}] :
        id.netloc \/ id.custom}
    \cup
    \* neither a subdomain, nor the platform's domain, nor its custom IP
    [subdomain : {FALSE}, netloc : {FALSE}, custom : {FALSE}, root : BOOLEAN,
     fetch : {"ok"}, anchors : {0}]

\* The URLs the model puts in self.urls for the i-th identifier: <<i, 0>> is
\* the identifier's own URL, <<i, k>> the k-th anchor of its music grid
GridUrls(i, id) == {<<i, k>> : k \in 1..id.anchors}

\* _add_urls_from_artist (lines 89-105): get_request_or_error raises an
\* HTTPError on a non-2xx answer; a page without ol#music-grid raises
\* ValueError; otherwise every anchor's URL is added.
_add_urls_from_artist(i, id) ==
    CASE id.fetch = "404"           -> [exc |-> "HTTPError404", added |-> {}]
      [] id.fetch = "http_error"    -> [exc |-> "HTTPError", added |-> {}]
      [] id.fetch = "no_music_grid" -> [exc |-> "ValueError", added |-> {}]
      [] OTHER                      -> [exc |-> None, added |-> GridUrls(i, id)]

\* Lines 110-118: _add_urls_from_artist inside the try/except of the
\* subdomain branch of add_url, which reports each failure and goes on
AddUrlsFromArtistGuarded(i, id) ==
    LET r == _add_urls_from_artist(i, id)
    IN  CASE r.exc = "HTTPError404" ->
               [exc |-> None, added |-> {}, errors |-> <<"not found">>]
          [] r.exc = "HTTPError" ->
               [exc |-> None, added |-> {}, errors |-> <<"request error">>]
          [] r.exc = "ValueError" ->
               [exc |-> None, added |-> {}, errors |-> <<"no releases found">>]
          [] OTHER -> [exc |-> None, added |-> r.added, errors |-> <<>>]

\* add_url (lines 107-135): what it adds to self.urls, what it reports
\* through screamer.error, and the exception that leaves it, if any.
add_url(i, id) ==
    IF id.subdomain
    THEN \* lines 108-118: the fetch is inside try/except
         AddUrlsFromArtistGuarded(i, id)
    ELSE IF id.netloc \/ id.custom
         THEN IF id.root
              THEN \* line 131: the fetch is outside any try/except
                   LET r == _add_urls_from_artist(i, id)
                   IN  [exc |-> r.exc, added |-> r.added, errors |-> <<>>]
              ELSE [exc |-> None, added |-> {<<i, 0>>}, errors |-> <<>>]
         ELSE \* line 135
              [exc |-> "ValueError_invalid", added |-> {}, errors |-> <<>>]

InitResolve ==
    /\ names \in [1..NumNames -> Identifiers]
    /\ next_name = 1
    /\ urls = {}
    /\ screamer = <<>>
    /\ ctor = "running"

\* One turn of the loop of __init__ (lines 83-84): add_url on the next
\* identifier; an exception that leaves add_url leaves the constructor
init_add_url ==
    /\ ctor = "running"
    /\ next_name <= NumNames
    /\ LET r == add_url(next_name, names[next_name])
       IN  /\ urls' = urls \cup r.added
           /\ screamer' = screamer \o r.errors
           /\ IF r.exc # None
              THEN ctor' = "raised" /\ next_name' = next_name
              ELSE ctor' = "running" /\ next_name' = next_name + 1
    /\ UNCHANGED names
    /\ UNCHANGED <<downloadVars, pathVars, yearVars, matchVars, pollVars, laterVars>>

\* The loop of __init__ has gone through the identifiers
init_return ==
    /\ ctor = "running"
    /\ next_name > NumNames
    /\ ctor' = "constructed"
    /\ UNCHANGED <<names, next_name, urls, screamer>>
    /\ UNCHANGED <<downloadVars, pathVars, yearVars, matchVars, pollVars, laterVars>>

NextResolve == init_add_url \/ init_return

SpecInitResolve ==
    IdleDownload /\ InitResolve /\ IdlePath /\ IdleYear /\ IdleMatch /\ IdlePoll
    /\ IdleLater

SpecResolve == SpecInitResolve /\ [][NextResolve]_vars

(***************************************************************************)
(*                   move_file  /  _sanitize_file_path                     *)
(*                                                                         *)
(* A string is a sequence of one-character strings.  No string of the      *)
(* model holds a line terminator, so the "." of a regular expression       *)
(* matches every character.                                                *)
(***************************************************************************)

\* Longest artist, album or track title of a render context
MaxValueLen == 2

Replace(s, old, new) == [i \in 1..Len(s) |-> IF s[i] = old THEN new ELSE s[i]]

\* str.lower() / re.IGNORECASE on the characters of the model
Lower(c) ==
    CASE c = "M" -> "m" [] c = "P" -> "p" [] c = "A" -> "a" [] OTHER -> c

LowerStr(s) == [i \in 1..Len(s) |-> Lower(s[i])]

EndsWith(s, suffix) ==
    /\ Len(s) >= Len(suffix)
    /\ SubSeq(s, Len(s) - Len(suffix) + 1, Len(s)) = suffix

RECURSIVE Parts(_)
\* The components of a path string, as pathlib parses it: the pieces between
\* separators, empty pieces dropped
Parts(s) ==
    IF s = <<>> THEN <<>>
    ELSE LET seps == {i \in 1..Len(s) : s[i] = "/"}
         IN  IF seps = {} THEN <<s>>
             ELSE LET i == CHOOSE j \in seps : \A k \in seps : j <= k
                  IN  (IF i = 1 THEN <<>> ELSE <<SubSeq(s, 1, i - 1)>>)
                      \o Parts(SubSeq(s, i + 1, Len(s)))

RECURSIVE JoinParts(_)
JoinParts(parts) ==
    IF parts = <<>> THEN <<>>
    ELSE IF Len(parts) = 1 THEN parts[1]
    ELSE parts[1] \o <<"/">> \o JoinParts(Tail(parts))

IsAbsolute(s) == s # <<>> /\ s[1] = "/"

\* str(Path(s))
Path(s) == (IF IsAbsolute(s) THEN <<"/">> ELSE <<>>) \o JoinParts(Parts(s))

\* str(destination / formatted_filename): an absolute right operand replaces
\* the left one
PathJoin(destination, rel) ==
    IF IsAbsolute(rel) THEN Path(rel) ELSE Path(destination \o <<"/">> \o rel)

\* The extensions of audio_extensions (line 250)
audio_extensions ==
    {<<".", "m", "p", "3">>, <<".", "f", "l", "a", "c">>, <<".", "w", "a", "v">>,
     <<".", "m", "4", "a">>, <<".", "a", "i", "f", "f">>, <<".", "o", "g", "g">>}

\* The suffixes the tag codec handles (bandcamper.metadata.utils)
suffix_to_metadata ==
    {<<".", "m", "p", "3">>, <<".", "f", "l", "a", "c">>, <<".", "w", "a", "v">>,
     <<".", "m", "4", "a">>, <<".", "a", "i", "f", "f">>, <<".", "o", "g", "g">>}

\* re.search(r'(.*/)(.*\.(mp3|flac|wav|m4a|aiff|ogg)$)', s, re.IGNORECASE):
\* the positions of a "/" after which the rest of the string ends in an audio
\* extension; the greedy first group takes the last of them (0: no match)
SplitPositions(s) ==
    {i \in 1..Len(s) :
        /\ s[i] = "/"
        /\ \E ext \in audio_extensions :
              EndsWith(LowerStr(SubSeq(s, i + 1, Len(s))), ext)}

MatchSplit(s) ==
    IF SplitPositions(s) = {} THEN 0
    ELSE CHOOSE i \in SplitPositions(s) : \A j \in SplitPositions(s) : j <= i

\* pathvalidate.sanitize_filepath on the characters of the model, none of
\* which is reserved on any platform: the path is normalised
sanitize_filepath(s) == Path(s)

\* _sanitize_file_path (lines 237-277)
_sanitize_file_path(file_path) ==
    LET file_path_str == Path(file_path)
        at == MatchSplit(file_path_str)
        directory_part == SubSeq(file_path_str, 1, at - 1)
        filename_part == SubSeq(file_path_str, at + 1, Len(file_path_str))
        sanitized_filename == Replace(filename_part, "/", "-")
        sanitized_path ==
            IF at # 0
            THEN IF directory_part # <<>>
                 THEN directory_part \o <<"/">> \o sanitized_filename
                 ELSE sanitized_filename
            ELSE Replace(file_path_str, "/", "-")
    IN  Path(sanitize_filepath(sanitized_path))

\* A template: a sequence of literal characters and replacement fields
Lit(c) == [kind |-> "lit", v |-> c]
Field(k) == [kind |-> "field", v |-> k]

\* FilenameFormatter.format(output, **context): every replacement field is
\* replaced by the context's value of that name
Format(output, context) ==
    LET RECURSIVE go(_)
        go(i) == IF i > Len(output) THEN <<>>
                 ELSE (IF output[i].kind = "lit" THEN <<output[i].v>>
                       ELSE context[output[i].v]) \o go(i + 1)
    IN  go(1)

\* get_track_output_context(file_path, tracks): the track's title and the
\* file's extension
get_track_output_context(file) ==
    [title |-> file.title, ext |-> file.suffix]

\* dict.update / dict item assignment: the keys of new override those of old
Update(old, new) == new @@ old

\* move_file (lines 279-301): the context after the call, the template used
\* and the path the file is moved to
move_file(file, destination, output, output_extra, context) ==
    LET audio == file.suffix \in suffix_to_metadata
        context1 == IF audio
                    THEN Update(context, get_track_output_context(file))
                    ELSE Update(context, [filename |-> file.stem \o file.suffix])
        template == IF audio THEN output ELSE output_extra
        sanitized_context ==
            [k \in DOMAIN context1 |-> Replace(context1[k], "/", "-")]
        formatted_filename == Format(template, sanitized_context)
        move_to == _sanitize_file_path(PathJoin(destination, formatted_filename))
    IN  [called |-> TRUE, file |-> file, destination |-> destination,
         audio |-> audio, template |-> template, context |-> context1,
         move_to |-> move_to]

\* The values scraped text may have: letters and the path separator
Values == SeqsUpTo({"a", "/"}, MaxValueLen) \ {<<>>}

\* The files a download leaves to be moved: audio files and their siblings
Files ==
    [stem : {<<"t">>}, title : Values,
     suffix : {<<".", "m", "p", "3">>, <<".", "f", "l", "a", "c">>}]
    \cup
    [stem : {<<"t">>}, title : {<<"a">>},
     suffix : {<<".", "j", "p", "g">>, <<".", "M", "P", "3">>}]

\* The destination roots: a relative and an absolute directory
Destinations == {<<"d">>, <<"/", "d", "/", "m">>}

\* The audio templates (output) a caller may give
Outputs ==
    {<<Field("artist"), Lit("/"), Field("album"), Lit("/"), Field("title"), Field("ext")>>,
     <<Field("artist"), Lit("-"), Field("title"), Field("ext")>>,
     <<Field("artist"), Lit("/"), Field("title")>>}

\* The templates for the other files (output_extra)
OutputsExtra ==
    {<<Field("filename")>>,
     <<Field("artist"), Lit("/"), Field("album"), Lit("/"), Field("filename")>>}

\* The release-level context download_from_url builds (lines 404-409)
Contexts == [artist : Values, album : Values]

\* The arguments of a move_file call that has not been made yet
InitPath ==
    moved \in [called : {FALSE}, file : Files, destination : Destinations,
               output : Outputs, output_extra : OutputsExtra,
               context : Contexts]

\* The call of move_file
MoveFile ==
    /\ ~moved.called
    /\ moved' = move_file(moved.file, moved.destination, moved.output,
                          moved.output_extra, moved.context)
    /\ UNCHANGED <<downloadVars, resolveVars, yearVars, matchVars, pollVars, laterVars>>

NextPath == MoveFile

SpecInitPath ==
    IdleDownload /\ IdleResolve /\ InitPath /\ IdleYear /\ IdleMatch /\ IdlePoll
    /\ IdleLater

SpecPath == SpecInitPath /\ [][NextPath]_vars

(***************************************************************************)
(*                       _extract_release_year                             *)
(*                                                                         *)
(* A page is described by what each source of the cascade finds on it: a   *)
(* year is the integer of a four-digit match, NoYear stands for no match.  *)
(***************************************************************************)

\* No year: no match of a pattern, and the None the extractor returns
NoYear == 0

\* A JSON-LD script on which json.loads or the subscript raises (caught)
BadJson == -1

\* Most release-date meta tags and most JSON-LD scripts of a page
MaxTags == 1

\* The bounds every candidate is checked against (line 134 and its copies)
MinYear == 1950
MaxYear == 2030

\* An upper bound that leaves the last year out
InRange_ExclusiveUpper(year) == year # NoYear /\ MinYear <= year /\ year < MaxYear

\* 1950 <= year_int <= 2030
InRange(year) == year # NoYear /\ MinYear <= year /\ year <= MaxYear

RECURSIVE FirstInRange(_)
\* The loops "for x in xs: ... if 1950 <= year_int <= 2030: return year":
\* the first in-range year of a sequence of matches, NoYear if there is none.
\* An entry NoYear (no four-digit match) or BadJson (json.loads or the subscript
\* raised, which is caught) is passed over.
FirstInRange(years) ==
    IF years = <<>> THEN NoYear
    ELSE IF Head(years) \notin {NoYear, BadJson} /\ InRange(Head(years))
         THEN Head(years)
         ELSE FirstInRange(Tail(years))

\* max(valid_years)
MaxOf(S) == CHOOSE y \in S : \A z \in S : z <= y

\* Priority 5 (lines 185-202): for each of the two patterns in turn, the most
\* recent of its matches that is in range
TextYear(text_years) ==
    LET m2000 == {y \in text_years : 2000 <= y /\ y <= 2029}
        m1900 == {y \in text_years : 1950 <= y /\ y <= 1999}
        v2000 == {y \in m2000 : InRange(y)}
        v1900 == {y \in m1900 : InRange(y)}
    IN  IF m2000 # {} /\ v2000 # {} THEN MaxOf(v2000)
        ELSE IF m1900 # {} /\ v1900 # {} THEN MaxOf(v1900)
        ELSE NoYear

\* _extract_release_year (lines 122-219)
_extract_release_year(page) ==
    \* Priority 1: the "released ..." phrase of the credits section
    IF page.credits # NoYear /\ InRange(page.credits) THEN page.credits
    \* Priority 2: the music:release_date meta tags
    ELSE IF FirstInRange(page.meta) # NoYear THEN FirstInRange(page.meta)
    \* Priority 3: pagedata's current.release_date, then current.publish_date
    ELSE IF FirstInRange(<<page.release_date, page.publish_date>>) # NoYear
         THEN FirstInRange(<<page.release_date, page.publish_date>>)
    \* Priority 4: datePublished of the JSON-LD scripts
    ELSE IF FirstInRange(page.json_ld) # NoYear THEN FirstInRange(page.json_ld)
    \* Priority 5: a year literal of the page text
    ELSE IF TextYear(page.text_years) # NoYear THEN TextYear(page.text_years)
    \* Priority 6: the copyright patterns, in turn
    ELSE IF page.copyright_sign # <<>> /\ FirstInRange(page.copyright_sign) # NoYear
         THEN FirstInRange(page.copyright_sign)
    ELSE IF page.copyright_word # <<>> /\ FirstInRange(page.copyright_word) # NoYear
         THEN FirstInRange(page.copyright_word)
    ELSE NoYear

\* The pages of the model: every source absent, out of range on either side,
\* or in range, with years that tell the sources apart
YearPages ==
    [credits : {NoYear, 1949, 1950},
     meta : SeqsUpTo({NoYear, 2031, 2030}, MaxTags),
     release_date : {NoYear, 1949, 1951},
     publish_date : {NoYear, 2029},
     json_ld : SeqsUpTo({BadJson, 2031, 1952}, MaxTags),
     text_years : SUBSET {1975, 2005},
     copyright_sign : SeqsUpTo({2031, 1953}, 1),
     copyright_word : SeqsUpTo({2028}, 1)]

\* The page of an _extract_release_year call that has not been made yet
InitYear == extracted \in [called : {FALSE}, page : YearPages]

\* The call of _extract_release_year
ExtractReleaseYear ==
    /\ ~extracted.called
    /\ extracted' = [called |-> TRUE, page |-> extracted.page,
                     year |-> _extract_release_year(extracted.page)]
    /\ UNCHANGED <<downloadVars, resolveVars, pathVars, matchVars, pollVars, laterVars>>

NextYear == ExtractReleaseYear

SpecInitYear ==
    IdleDownload /\ IdleResolve /\ IdlePath /\ InitYear /\ IdleMatch /\ IdlePoll
    /\ IdleLater

SpecYear == SpecInitYear /\ [][NextYear]_vars

(***************************************************************************)
(*                 _find_matching_track  /  _fuzzy_match                   *)
(***************************************************************************)

\* Longest base name of a file
MaxNameLen == 3

\* Most tracks of an album's track list
MaxTracks == 2

Digits == {"0", "2", "7"}

DigitValue(c) == CASE c = "0" -> 0 [] c = "2" -> 2 [] c = "7" -> 7

\* The characters of a base name: digits, a letter in upper case, a blank
NameChars == Digits \cup {"A", " "}

RECURSIVE IntOf(_)
\* int(s) of a run of digits
IntOf(run) ==
    IF run = <<>> THEN 0
    ELSE 10 * IntOf(SubSeq(run, 1, Len(run) - 1)) + DigitValue(run[Len(run)])

\* re.search(r'(\d+)', filename): the first run of digits, as long as it
\* goes; <<>> when the name has no digit
FirstDigitRun(filename) ==
    LET starts == {i \in 1..Len(filename) : filename[i] \in Digits}
    IN  IF starts = {} THEN <<>>
        ELSE LET b == CHOOSE i \in starts : \A j \in starts : i <= j
                 ends == {e \in b..Len(filename) :
                             \A k \in b..e : filename[k] \in Digits}
                 e == CHOOSE x \in ends : \A y \in ends : y <= x
             IN  SubSeq(filename, b, e)

RECURSIVE Clean(_)
\* re.sub(r'[_\-\s]+', ' ', s): every run of separators becomes one blank
Clean(s) ==
    IF s = <<>> THEN <<>>
    ELSE IF s[1] \in {" ", "_", "-"}
         THEN IF Len(s) > 1 /\ s[2] \in {" ", "_", "-"}
              THEN Clean(Tail(s))
              ELSE <<" ">> \o Clean(Tail(s))
         ELSE <<s[1]>> \o Clean(Tail(s))

RECURSIVE Strip(_)
\* str.strip()
Strip(s) ==
    IF s = <<>> THEN <<>>
    ELSE IF s[1] = " " THEN Strip(Tail(s))
    ELSE IF s[Len(s)] = " " THEN Strip(SubSeq(s, 1, Len(s) - 1))
    ELSE s

\* a in b, for strings
Contains(b, a) ==
    \E i \in 0..(Len(b) - Len(a)) : SubSeq(b, i + 1, i + Len(a)) = a

\* set(s.split())
Words(s) == {w \in Range(Parts(Replace(s, " ", "/"))) : w # <<>>}

\* _fuzzy_match (lines 357-377), threshold 0.6
_fuzzy_match(str1, str2) ==
    LET clean1 == Strip(Clean(str1))
        clean2 == Strip(Clean(str2))
        words1 == Words(clean1)
        words2 == Words(clean2)
        overlap == Cardinality(words1 \cap words2)
        total_words == Cardinality(words1 \cup words2)
    IN  IF Contains(clean2, clean1) \/ Contains(clean1, clean2) THEN TRUE
        ELSE IF words1 = {} \/ words2 = {} THEN FALSE
        ELSE 10 * overlap >= 6 * total_words

\* The index of the first track a loop "for track in tracks: if ...: return
\* track" returns, given the indices of the tracks that pass its test; 0
\* when none passes
FirstIndex(hits) ==
    IF hits = {} THEN 0 ELSE CHOOSE i \in hits : \A j \in hits : i <= j

\* The tracks the loop of lines 341-343 would return
NumberHits(tracks, file_track_num) ==
    {i \in 1..Len(tracks) : tracks[i].number = file_track_num}

\* The tracks the loop of lines 346-349 would return
TitleHits(tracks, filename) ==
    {i \in 1..Len(tracks) :
        /\ tracks[i].title # <<>>
        /\ _fuzzy_match(filename, LowerStr(tracks[i].title))}

\* A matcher that tries the title before the number
_find_matching_track_TitleFirst(stem, tracks) ==
    LET filename == LowerStr(stem)
        run == FirstDigitRun(filename)
        by_number == FirstIndex(NumberHits(tracks, IntOf(run)))
        by_title == FirstIndex(TitleHits(tracks, filename))
    IN  IF tracks = <<>> THEN 0
        ELSE IF by_title # 0 THEN by_title
        ELSE IF run # <<>> /\ by_number # 0 THEN by_number
        ELSE IF Len(tracks) = 1 THEN 1
        ELSE 0

\* _find_matching_track (lines 326-355): the index in tracks of the track it
\* returns, 0 for None
_find_matching_track(stem, tracks) ==
    LET filename == LowerStr(stem)
        run == FirstDigitRun(filename)
        by_number == FirstIndex(NumberHits(tracks, IntOf(run)))
        by_title == FirstIndex(TitleHits(tracks, filename))
    IN  IF tracks = <<>> THEN 0
        ELSE IF run # <<>> /\ by_number # 0 THEN by_number
        ELSE IF by_title # 0 THEN by_title
        ELSE IF Len(tracks) = 1 THEN 1
        ELSE 0

\* The tracks _extract_tracks may return: a number and a title each
TrackRecords == [number : {2, 7}, title : {<<"a">>, <<"b">>}]

\* The arguments of a _find_matching_track call that has not been made yet
InitMatch ==
    matched \in [called : {FALSE},
                 stem : SeqsUpTo(NameChars, MaxNameLen) \ {<<>>},
                 tracks : SeqsUpTo(TrackRecords, MaxTracks)]

\* The call of _find_matching_track
FindMatchingTrack ==
    /\ ~matched.called
    /\ matched' = [called |-> TRUE, stem |-> matched.stem,
                   tracks |-> matched.tracks,
                   track |-> _find_matching_track(matched.stem, matched.tracks)]
    /\ UNCHANGED <<downloadVars, resolveVars, pathVars, yearVars, pollVars, laterVars>>

NextMatch == FindMatchingTrack

SpecInitMatch ==
    IdleDownload /\ IdleResolve /\ IdlePath /\ IdleYear /\ InitMatch /\ IdlePoll
    /\ IdleLater

SpecMatch == SpecInitMatch /\ [][NextMatch]_vars

(***************************************************************************)
(*                     _get_download_url_from_email                        *)
(***************************************************************************)

\* Longest timeout a caller passes (the default of the source is 60)
MaxTimeout == 8

\* _get_download_url_from_email is entered with some timeout (lines 197-206)
InitPoll ==
    /\ timeout \in 0..MaxTimeout
    /\ time_sleeping = 0
    /\ msgs = 0
    /\ checks = 0
    /\ poll = "called"

\* The form is posted (line 221); a response that is not ok raises
\* (lines 222-223), otherwise the loop is entered with no message and no
\* time slept (lines 224-225)
post_request ==
    /\ poll = "called"
    /\ \E ok \in BOOLEAN :
          poll' = IF ok THEN "loop" ELSE "request_failed"
    /\ msgs' = 0
    /\ time_sleeping' = 0
    /\ UNCHANGED <<timeout, checks>>
    /\ UNCHANGED <<downloadVars, resolveVars, pathVars, yearVars, matchVars, laterVars>>

\* "while not msgs" with no message, "if time_sleeping > timeout" true: the
\* ValueError "Bandcamp email not received" is raised (lines 226-230)
raise_not_received ==
    /\ poll = "loop"
    /\ msgs = 0
    /\ time_sleeping > timeout
    /\ poll' = "timed_out"
    /\ UNCHANGED <<timeout, time_sleeping, msgs, checks>>
    /\ UNCHANGED <<downloadVars, resolveVars, pathVars, yearVars, matchVars, laterVars>>

\* One pass of the loop body: sleep(1), time_sleeping += 1, and one
\* mailbox.get_messages, which returns a message or none (lines 231-233)
sleep_and_check ==
    /\ poll = "loop"
    /\ msgs = 0
    /\ ~(time_sleeping > timeout)
    /\ time_sleeping' = time_sleeping + 1
    /\ checks' = checks + 1
    /\ msgs' \in {0, 1}
    /\ UNCHANGED <<timeout, poll>>
    /\ UNCHANGED <<downloadVars, resolveVars, pathVars, yearVars, matchVars, laterVars>>

\* "while not msgs" with a message: the link of the first message is
\* returned (lines 234-235)
return_href ==
    /\ poll = "loop"
    /\ msgs > 0
    /\ poll' = "returned"
    /\ UNCHANGED <<timeout, time_sleeping, msgs, checks>>
    /\ UNCHANGED <<downloadVars, resolveVars, pathVars, yearVars, matchVars, laterVars>>

NextPoll == post_request \/ raise_not_received \/ sleep_and_check \/ return_href

SpecInitPoll ==
    IdleDownload /\ IdleResolve /\ IdlePath /\ IdleYear /\ IdleMatch /\ InitPoll
    /\ IdleLater

\* The call runs on: a thread that can take its next step takes it
SpecPoll == SpecInitPoll /\ [][NextPoll]_vars /\ WF_vars(NextPoll)

(***************************************************************************)
(*                        download_fallback_mp3                            *)
(*                                                                         *)
(* An optional value (None or a value) is a sequence of no or one element. *)
(***************************************************************************)

\* Most tracks of music_data["trackinfo"]
MaxTrackInfo == 2

DigitChar(d) ==
    CASE d = 0 -> "0" [] d = 1 -> "1" [] d = 2 -> "2" [] d = 3 -> "3"
      [] d = 4 -> "4" [] d = 5 -> "5" [] d = 6 -> "6" [] d = 7 -> "7"
      [] d = 8 -> "8" [] d = 9 -> "9"

RECURSIVE Decimal(_)
\* str(n) of a natural number
Decimal(n) ==
    IF n < 10 THEN <<DigitChar(n)>>
    ELSE Decimal(n \div 10) \o <<DigitChar(n % 10)>>

\* f"{n:02d}": at least two digits, padded with zeros on the left
ZeroPad2(n) == IF n < 10 THEN <<"0">> \o Decimal(n) ELSE Decimal(n)

\* The local track_num of one pass of the loop (lines 308-311), as the
\* f-string of line 319 prints it: the integer 1 when the track has no
\* number, the padded string otherwise
TrackNumText(track) ==
    IF track.track_num = <<>> THEN Decimal(1) ELSE ZeroPad2(track.track_num[1])

\* The file name template of line 319, before the extension
FallbackName(artist, album, track_num, title) ==
    artist \o <<" ", "-", " ">> \o album \o <<" ", "-", " ">>
           \o track_num \o <<" ">> \o title

RECURSIVE FallbackLoop(_, _, _, _)
\* The loop of lines 305-322 from one track on; title is the local of that
\* name, which line 314 assigns once it is found None
FallbackLoop(track_info, artist, album, title) ==
    IF track_info = <<>> THEN <<>>
    ELSE LET track == Head(track_info)
         IN  IF ~track.file
             THEN FallbackLoop(Tail(track_info), artist, album, title)
             ELSE LET track_num == TrackNumText(track)
                      title1 == IF title = <<>> THEN <<track.title>> ELSE title
                  IN  <<[track |-> track,
                         track_num |-> track_num,
                         title |-> title1[1],
                         name |-> FallbackName(artist, album, track_num, title1[1])]>>
                      \o FallbackLoop(Tail(track_info), artist, album, title1)

\* download_fallback_mp3 (lines 303-323): the files it asks download_to_file
\* for, in order
download_fallback_mp3_files(track_info, artist, album, title) ==
    FallbackLoop(track_info, artist, album, title)

\* The entries of music_data["trackinfo"]: with or without a preview stream,
\* with or without a number
TrackInfos ==
    [file : BOOLEAN, track_num : {<<>>, <<3>>, <<12>>},
     title : {<<"a">>, <<"b">>}]

\* The arguments of a download_fallback_mp3 call that has not been made yet:
\* title is None for an album (line 364) and the track's title otherwise
InitFallback ==
    named \in [called : {FALSE},
               track_info : SeqsUpTo(TrackInfos, MaxTrackInfo),
               artist : {<<"r">>}, album : {<<"l">>},
               title : {<<>>, <<<<"s">>>>}]

\* The call of download_fallback_mp3
DownloadFallbackMp3 ==
    /\ ~named.called
    /\ named' = [named EXCEPT !.called = TRUE] @@
                [file_paths |-> download_fallback_mp3_files(
                                   named.track_info, named.artist,
                                   named.album, named.title)]
    /\ UNCHANGED <<earlierVars, freeVars, extractVars, placeVars>>

NextFallback == DownloadFallbackMp3

SpecInitFallback ==
    IdleEarlier /\ InitFallback /\ IdleFree /\ IdleExtract /\ IdlePlace

SpecFallback == SpecInitFallback /\ [][NextFallback]_vars

(***************************************************************************)
(*                    _free_download, format by format                     *)
(***************************************************************************)

\* Most formats a caller requests
MaxFormats == 2

\* What the download page and the two requests of one format can come to:
\* the format is not in the mapping; the stat request raises; the stat
\* result is "ok", "err" or something else; the download request raises or
\* leaves an archive or a single file in the destination
FormatOutcomes ==
    {"absent", "stat_raises", "stat_other", "download_raises",
     "ok_zip", "ok_file", "err_zip", "err_file"}

\* What one pass of the loop of lines 161-194 does to the outcome so far;
\* nothing propagates but the exception of a request
FreeDownloadPass(acc, fmt, outcome) ==
    LET seen == [acc EXCEPT !.attempted = Append(@, fmt)]
    IN  CASE outcome = "absent" ->
               [seen EXCEPT !.errors = Append(@, <<fmt, "download not found">>)]
          [] outcome = "stat_raises" ->
               [seen EXCEPT !.raised = TRUE]
          [] outcome = "stat_other" ->
               [seen EXCEPT !.errors = Append(@, <<fmt, "Error downloading">>)]
          [] outcome = "download_raises" ->
               [seen EXCEPT !.raised = TRUE]
          [] outcome \in {"ok_zip", "err_zip"} ->
               \* extracted next to the archive, the archive unlinked
               [seen EXCEPT !.downloaded_paths =
                               Append(@, [fmt |-> fmt, is_dir |-> TRUE]),
                            !.unlinked = @ \cup {fmt}]
          [] outcome \in {"ok_file", "err_file"} ->
               [seen EXCEPT !.downloaded_paths =
                               Append(@, [fmt |-> fmt, is_dir |-> FALSE])]

RECURSIVE FreeDownloadLoop(_, _)
\* The loop of lines 161-194 over the requested formats still to come
FreeDownloadLoop(acc, requests) ==
    IF requests = <<>> \/ acc.raised THEN acc
    ELSE FreeDownloadLoop(
             FreeDownloadPass(acc, Head(requests).fmt, Head(requests).outcome),
             Tail(requests))

\* _free_download (lines 155-195) on a download page that was fetched and
\* parsed: the formats the loop reached, downloaded_paths, the errors handed
\* to the screamer, the archives unlinked, and whether an exception left it
_free_download_formats(requests) ==
    FreeDownloadLoop([raised |-> FALSE, attempted |-> <<>>,
                      downloaded_paths |-> <<>>, errors |-> <<>>,
                      unlinked |-> {}],
                     requests)

\* *download_formats in the order the loop takes them, each with what the
\* platform answers for it; a format is requested once (line 330)
FormatRequests ==
    {r \in SeqsUpTo([fmt : {"flac", "mp3-320", "wav"}, outcome : FormatOutcomes],
                    MaxFormats) :
        \A i, j \in 1..Len(r) : i # j => r[i].fmt # r[j].fmt}

InitFree == freed \in [called : {FALSE}, requests : FormatRequests]

\* The call of _free_download
FreeDownload ==
    /\ ~freed.called
    /\ freed' = [called |-> TRUE, requests |-> freed.requests,
                 outcome |-> _free_download_formats(freed.requests)]
    /\ UNCHANGED <<earlierVars, fallbackVars, extractVars, placeVars>>

NextFree == FreeDownload

SpecInitFree ==
    IdleEarlier /\ IdleFallback /\ InitFree /\ IdleExtract /\ IdlePlace

SpecFree == SpecInitFree /\ [][NextFree]_vars

(***************************************************************************)
(*                        extract_album_metadata                           *)
(***************************************************************************)

\* What a field extractor comes to on a page: it raises, or it returns a
\* value or nothing (None, an empty string, an empty list)
Extracted(values) ==
    [raises : {TRUE}, value : {<<>>}] \cup [raises : {FALSE}, value : values]

\* The album pages extract_album_metadata may be given: whether the fetch
\* succeeds, and what each of the four extractors comes to
AlbumPages ==
    [fetch : {"ok", "RequestException"},
     album_title : Extracted({<<>>, <<"T">>}),
     artist_name : Extracted({<<>>, <<"A">>}),
     release_year : Extracted({<<>>, <<1999>>}),
     tracks : Extracted({<<>>, <<[number |-> 1, title |-> <<"a">>]>>})]

\* extract_album_metadata (lines 30-74): no or one dict.  One try block
\* (lines 46-74) holds the four extractor calls, and its handler returns None
extract_album_metadata(page) ==
    IF page.fetch # "ok" THEN <<>>
    ELSE IF page.album_title.raises THEN <<>>
    ELSE IF page.album_title.value = <<>> THEN <<>>
    ELSE IF page.artist_name.raises THEN <<>>
    ELSE IF page.artist_name.value = <<>> THEN <<>>
    ELSE IF page.release_year.raises THEN <<>>
    ELSE IF page.tracks.raises THEN <<>>
    ELSE <<[artist |-> page.artist_name.value[1],
            album |-> page.album_title.value[1],
            year |-> page.release_year.value,
            tracks |-> page.tracks.value]>>

InitExtract == album_metadata \in [called : {FALSE}, page : AlbumPages]

\* The call of extract_album_metadata
ExtractAlbumMetadata ==
    /\ ~album_metadata.called
    /\ album_metadata' = [called |-> TRUE, page |-> album_metadata.page,
                          result |-> extract_album_metadata(album_metadata.page)]
    /\ UNCHANGED <<earlierVars, fallbackVars, freeVars, placeVars>>

NextExtract == ExtractAlbumMetadata

SpecInitExtract ==
    IdleEarlier /\ IdleFallback /\ IdleFree /\ InitExtract /\ IdlePlace

SpecExtract == SpecInitExtract /\ [][NextExtract]_vars

(***************************************************************************)
(*     download_from_url, from the render context to the cover image       *)
(*                 (lines 404-438, 440-473 and 475-506)                    *)
(***************************************************************************)

\* Most entries of file_paths
MaxEntries == 2

\* Most _download_cover_image calls that reach one album directory: the
\* call of this release and those of later downloads into the directory
MaxCoverRuns == 2

\* The position of the last separator of a path string, 0 without one
LastSeparator(path) ==
    LET seps == {i \in 1..Len(path) : path[i] = "/"}
    IN  IF seps = {} THEN 0 ELSE CHOOSE i \in seps : \A k \in seps : k <= i

\* PurePath.suffix of a Path's string: the last component from its last dot
\* on, unless the dot leads or ends the component
Suffix(path) ==
    LET last == SubSeq(path, LastSeparator(path) + 1, Len(path))
        dots == {i \in 2..Len(last) : last[i] = "."}
    IN  IF dots = {} THEN <<>>
        ELSE LET d == CHOOSE i \in dots : \A k \in dots : k <= i
             IN  IF d = Len(last) THEN <<>> ELSE SubSeq(last, d, Len(last))

\* str(PurePath.parent) of a Path's string
Parent(path) ==
    LET at == LastSeparator(path)
    IN  IF at = 0 THEN <<".">>
        ELSE IF at = 1 THEN <<"/">>
        ELSE SubSeq(path, 1, at - 1)

\* FilenameFormatter.format raises KeyError for a replacement field the
\* context has no value for; move_file has put the file's own keys into the
\* context by then (lines 280-284)
Renders(file, output, output_extra, context) ==
    LET audio == file.suffix \in suffix_to_metadata
        keys == DOMAIN (IF audio
                        THEN Update(context, get_track_output_context(file))
                        ELSE Update(context, [filename |-> file.stem \o file.suffix]))
        template == IF audio THEN output ELSE output_extra
    IN  \A i \in 1..Len(template) :
            template[i].kind = "field" => template[i].v \in keys

RECURSIVE MoveFiles(_, _, _)
\* move_file on the files of one entry, one after the other, with the one
\* dict download_from_url hands to every call (lines 415-419, 428-431);
\* went holds the context, new_path, moved_files and the exception so far
MoveFiles(files, args, went) ==
    IF files = <<>> \/ went.exc # None THEN went
    ELSE IF ~Renders(Head(files), args.output, args.output_extra, went.context)
    THEN [went EXCEPT !.exc = "KeyError"]
    ELSE LET m == move_file(Head(files), args.destination, args.output,
                            args.output_extra, went.context)
         IN  MoveFiles(Tail(files), args,
                       [context |-> m.context,
                        new_path |-> m.move_to,
                        moved_files |-> Append(went.moved_files, m.move_to),
                        placed |-> Append(went.placed,
                                          [file |-> Head(files),
                                           context |-> went.context,
                                           move_to |-> m.move_to]),
                        exc |-> None])

\* A success_count that counts every call, whatever it came to
CountWrite_EveryCall(count, written) == count + 1

\* Lines 464-468: success_count counts the calls that returned True; a call
\* that returned False or raised leaves it
CountWrite(count, written) == IF written = "True" THEN count + 1 ELSE count

\* The files of moved_files _write_metadata_to_files writes to (lines 451-454)
AudioFiles(files) == SelectSeq(files, LAMBDA q : Suffix(q) \in suffix_to_metadata)

\* A cover step that fetches without looking for an existing cover.png
_download_cover_image_NoExistsCheck(art_url, files, on_disk, fetch) ==
    IF ~art_url \/ files = <<>>
    THEN [covers |-> on_disk,
          log |-> [cover_path |-> <<>>, existed |-> FALSE, fetched |-> FALSE,
                   saved |-> FALSE]]
    ELSE LET cover_path == Parent(files[1]) \o <<"/">> \o <<"cover.png">>
             exists == \E c \in on_disk : c.path = cover_path
         IN  [covers |-> IF fetch = "ok"
                         THEN {c \in on_disk : c.path # cover_path}
                              \cup {[path |-> cover_path, content |-> "fetched"]}
                         ELSE on_disk,
              log |-> [cover_path |-> cover_path, existed |-> exists,
                       fetched |-> TRUE, saved |-> fetch = "ok"]]

\* _download_cover_image (lines 475-506): the cover files on disk after the
\* call, and what the call did
_download_cover_image(art_url, files, on_disk, fetch) ==
    IF ~art_url \/ files = <<>>
    THEN [covers |-> on_disk,
          log |-> [cover_path |-> <<>>, existed |-> FALSE, fetched |-> FALSE,
                   saved |-> FALSE]]
    ELSE LET cover_path == Parent(files[1]) \o <<"/">> \o <<"cover.png">>
             exists == \E c \in on_disk : c.path = cover_path
         IN  IF exists
             THEN [covers |-> on_disk,
                   log |-> [cover_path |-> cover_path, existed |-> TRUE,
                            fetched |-> FALSE, saved |-> FALSE]]
             ELSE [covers |-> IF fetch = "ok"
                              THEN on_disk \cup {[path |-> cover_path,
                                                  content |-> "fetched"]}
                              ELSE on_disk,
                   log |-> [cover_path |-> cover_path, existed |-> FALSE,
                            fetched |-> TRUE, saved |-> fetch = "ok"]]

\* The files a strategy leaves: two tagged tracks, one per requested format,
\* and the cover scan every archive carries
TrackX == [stem |-> <<"t">>, title |-> <<"x">>, suffix |-> <<".", "m", "p", "3">>]
TrackY == [stem |-> <<"u">>, title |-> <<"y">>, suffix |-> <<".", "f", "l", "a", "c">>]
Scan == [stem |-> <<"c">>, title |-> <<"c">>, suffix |-> <<".", "j", "p", "g">>]

\* The entries of file_paths: a single downloaded file, or the directory an
\* archive was extracted to, which may hold nothing
FileEntries ==
    {[is_dir |-> FALSE, children |-> <<TrackX>>]}
    \cup [is_dir : {TRUE},
          children : {<<>>, <<Scan>>, <<TrackX, Scan>>, <<Scan, TrackY>>}]

\* The lists a strategy returns: one entry per format or preview stream, no
\* two of them alike
FilePaths ==
    {l \in SeqsUpTo(FileEntries, MaxEntries) :
        \A i, k \in 1..Len(l) : i # k => l[i] # l[k]}

\* The calls of download_from_url that reach line 404
Jobs ==
    [destination : {<<"d">>},
     output : {<<Field("artist"), Lit("/"), Field("title"), Field("ext")>>},
     output_extra : {<<Field("filename")>>,
                     <<Field("artist"), Lit("/"), Field("filename")>>,
                     <<Field("artist"), Lit("/"), Field("title"), Field("filename")>>},
     context : {[artist |-> <<"a">>, album |-> <<"l">>]},
     art_url : BOOLEAN,
     file_paths : FilePaths,
     covers : {{},
               {[path |-> <<"d", "/", "cover.png">>, content |-> "old"]},
               {[path |-> <<"d", "/", "a", "/", "cover.png">>, content |-> "old"]}}]

\* Line 404-411: the strategy has returned file_paths, every entry of it is
\* in the destination, the context holds the release-level values
InitPlace ==
    /\ job \in Jobs
    /\ place_pc = "moving"
    /\ entries = job.file_paths
    /\ context_dict = job.context
    /\ new_path = <<>>
    /\ moved_files = <<>>
    /\ placed = <<>>
    /\ temp = 1..Len(job.file_paths)
    /\ writes = <<>>
    /\ success_count = 0
    /\ covers = job.covers
    /\ cover_log = <<>>

\* One pass of the loop of lines 413-432: the children of a directory are
\* moved and the directory removed, or the single file is moved.  After the
\* children, line 424 reads new_path, which is unbound if no file has been
\* moved yet.
place_entry ==
    /\ place_pc = "moving"
    /\ entries # <<>>
    /\ LET this == Head(entries)
           went == MoveFiles(this.children, job,
                             [context |-> context_dict, new_path |-> new_path,
                              moved_files |-> moved_files, placed |-> placed,
                              exc |-> None])
           exc == IF went.exc # None THEN went.exc
                  ELSE IF this.is_dir /\ went.new_path = <<>>
                       THEN "UnboundLocalError"
                       ELSE None
       IN  /\ context_dict' = went.context
           /\ new_path' = went.new_path
           /\ moved_files' = went.moved_files
           /\ placed' = went.placed
           /\ place_pc' = IF exc # None THEN exc ELSE "moving"
           /\ entries' = IF exc # None THEN entries ELSE Tail(entries)
           /\ temp' = IF exc # None THEN temp
                      ELSE temp \ {Len(job.file_paths) - Len(entries) + 1}
    /\ UNCHANGED <<job, writes, success_count, covers, cover_log>>
    /\ UNCHANGED <<earlierVars, fallbackVars, freeVars, extractVars>>

\* The loop of lines 413-432 is over: _write_metadata_to_files is called
write_metadata_to_files ==
    /\ place_pc = "moving"
    /\ entries = <<>>
    /\ place_pc' = "metadata"
    /\ UNCHANGED <<job, entries, context_dict, new_path, moved_files, placed,
                   temp, writes, success_count, covers, cover_log>>
    /\ UNCHANGED <<earlierVars, fallbackVars, freeVars, extractVars>>

\* One pass of the loop of lines 463-468: write_metadata_to_file returns
\* True or False, or raises; the exception is caught and reported
write_metadata_to_file ==
    /\ place_pc = "metadata"
    /\ Len(writes) < Len(AudioFiles(moved_files))
    /\ \E written \in {"True", "False", "raises"} :
          /\ writes' = Append(writes, written)
          /\ success_count' = CountWrite(success_count, written)
    /\ UNCHANGED <<job, place_pc, entries, context_dict, new_path, moved_files,
                   placed, temp, covers, cover_log>>
    /\ UNCHANGED <<earlierVars, fallbackVars, freeVars, extractVars>>

\* _write_metadata_to_files returns: there is no audio file (line 456-458)
\* or the loop is over (lines 470-473)
write_metadata_return ==
    /\ place_pc = "metadata"
    /\ Len(writes) = Len(AudioFiles(moved_files))
    /\ place_pc' = "cover"
    /\ UNCHANGED <<job, entries, context_dict, new_path, moved_files, placed,
                   temp, writes, success_count, covers, cover_log>>
    /\ UNCHANGED <<earlierVars, fallbackVars, freeVars, extractVars>>

\* The call of _download_cover_image of line 438, and the same call of a
\* later download whose first file lands in the same directory
download_cover_image ==
    /\ place_pc \in {"cover", "done"}
    /\ Len(cover_log) < MaxCoverRuns
    /\ \E fetch \in {"ok", "fails"} :
          LET did == _download_cover_image(job.art_url, moved_files, covers, fetch)
          IN  /\ covers' = did.covers
              /\ cover_log' = Append(cover_log, did.log @@ [before |-> covers])
    /\ place_pc' = "done"
    /\ UNCHANGED <<job, entries, context_dict, new_path, moved_files, placed,
                   temp, writes, success_count>>
    /\ UNCHANGED <<earlierVars, fallbackVars, freeVars, extractVars>>

NextPlace ==
    \/ place_entry
    \/ write_metadata_to_files
    \/ write_metadata_to_file
    \/ write_metadata_return
    \/ download_cover_image

SpecInitPlace ==
    IdleEarlier /\ IdleFallback /\ IdleFree /\ IdleExtract /\ InitPlace

SpecPlace == SpecInitPlace /\ [][NextPlace]_vars

(***************************************************************************)
(*                     Claims on SpecDownload                              *)
(***************************************************************************)

\* The strategies a sequence of executed procedures amounts to: the free or
\* the e-mail gated strategy (whose second half is the free-download
\* procedure) counts once, every run of the fallback procedure counts once
StrategyRuns(executed) ==
    (IF \E i \in 1..Len(executed) :
            executed[i] \in {"_free_download", "_get_download_url_from_email"}
     THEN 1 ELSE 0)
    + Cardinality({i \in 1..Len(executed) : executed[i] = "download_fallback_mp3"})

\* download_from_url got the music data of the release it handled last
Fetched == release.called /\ release.page.fetch = "ok"

\* mp3-128 is among the requested formats
Mp3Requested == "mp3-128" \in download_formats

\* One of the three strategies applies to the release handled last
StrategyApplies ==
    /\ Fetched
    /\ \/ release.page.freeDownloadPage
       \/ release.page.require_email
       \/ fallback
       \/ Mp3Requested

\* C1 (as stated): for every release to which a strategy applies, exactly one
\* of the three strategies (free, e-mail gated, fallback) is executed, for
\* every requested format set, those with mp3-128 included.
C1_ExactlyOneStrategy ==
    StrategyApplies => StrategyRuns(release.executed) = 1

\* The procedures the priority order free > e-mail gated > fallback asks for,
\* with the extra fallback run for a requested mp3-128
ExpectedProcedures ==
    LET p == release.page
        extra == IF Mp3Requested THEN <<"download_fallback_mp3">> ELSE <<>>
    IN  IF p.freeDownloadPage THEN <<"_free_download">> \o extra
        ELSE IF p.require_email
        THEN IF p.email = "ok"
             THEN <<"_get_download_url_from_email", "_free_download">> \o extra
             ELSE <<"_get_download_url_from_email">>
        ELSE IF fallback \/ Mp3Requested THEN <<"download_fallback_mp3">>
        ELSE <<>>

\* C1 (amended): for every release whose data was fetched the primary
\* strategy is the first that applies in the order free > e-mail gated >
\* fallback, and it is the only one executed unless mp3-128 was requested and
\* the primary strategy is the free or the e-mail gated one: then the
\* fallback procedure runs once more after it (two strategies in all).
C1_PriorityOrderPlusMp3 ==
    Fetched =>
        /\ release.executed = ExpectedProcedures
        /\ StrategyRuns(release.executed) <= 2
        /\ (StrategyRuns(release.executed) = 2) <=>
               /\ Mp3Requested
               /\ release.exc = None
               /\ release.page.freeDownloadPage \/ release.page.require_email

\* C1 witness: a release with a free download page and mp3-128 requested,
\* for which the free and then the fallback procedure were executed
C1_Witness ==
    /\ Fetched
    /\ release.page.freeDownloadPage
    /\ release.page.require_email
    /\ Mp3Requested
    /\ release.executed = <<"_free_download", "download_fallback_mp3">>

\* No free page, no e-mail gate, fallback off and mp3-128 not requested
NoMatch ==
    /\ Fetched
    /\ ~release.page.freeDownloadPage
    /\ ~release.page.require_email
    /\ ~fallback
    /\ ~Mp3Requested

\* C2 (as stated): a release that matches no strategy yields no file and
\* exactly one "no free download available" error, and download_from_url
\* returns normally so that the next release is processed.
C2_NoMatchOneError ==
    NoMatch =>
        /\ release.file_paths = <<>>
        /\ release.errors = <<"no free download">>
        /\ release.exc = None

\* C3 (as stated): no failure of a release (404, other HTTP error, parse
\* failure, e-mail request rejected, e-mail timeout, no strategy) leaves
\* download_all: the loop goes on to the releases after it.
C3_BatchNeverAborts == batch # "raised"

(***************************************************************************)
(*                      Claims on SpecResolve                              *)
(***************************************************************************)

\* The identifier resolves to an artist root whose fetch fails (404, another
\* HTTP error, or no release-grid container)
FailingArtistRoot(id) ==
    /\ id.subdomain \/ ((id.netloc \/ id.custom) /\ id.root)
    /\ id.fetch # "ok"

\* The identifier is none of subdomain, platform URL, custom domain
InvalidSource(id) == ~id.subdomain /\ ~id.netloc /\ ~id.custom

\* C4 (as stated): a failing artist-root fetch, for an identifier given as a
\* bare subdomain or as a URL whose path is empty or /music, does not abort
\* the resolution of the other identifiers passed to the constructor.
C4_ArtistRootFailureNotFatal ==
    ctor = "raised" => ~FailingArtistRoot(names[next_name])

\* C5 (as stated): an invalid identifier leaves the URL set unchanged and
\* aborts that identifier only: the constructor goes on to the identifiers
\* after it.
C5_InvalidAbortsOnlyItself ==
    ctor = "raised" => ~InvalidSource(names[next_name])

(***************************************************************************)
(*                        Claims on SpecPath                               *)
(***************************************************************************)

RECURSIVE TemplateSegments(_)
\* The pieces of a template between its literal separators
TemplateSegments(output) ==
    LET seps == {i \in 1..Len(output) : output[i] = Lit("/")}
    IN  IF seps = {} THEN <<output>>
        ELSE LET i == CHOOSE j \in seps : \A k \in seps : j <= k
             IN  <<SubSeq(output, 1, i - 1)>>
                 \o TemplateSegments(SubSeq(output, i + 1, Len(output)))

\* A value with every separator replaced by a hyphen
Hyphenated(v) == [i \in 1..Len(v) |-> IF v[i] = "/" THEN "-" ELSE v[i]]

\* The components the template asks for below the destination root: each of
\* its literal segments with the placeholders substituted
ExpectedComponents(output, context) ==
    LET segs == TemplateSegments(output)
        ctx == [k \in DOMAIN context |-> Hyphenated(context[k])]
    IN  [i \in 1..Len(segs) |-> Format(segs[i], ctx)]

\* The path lies in the destination root and has the template's components
KeepsTemplateDirectories(m) ==
    /\ IsAbsolute(m.move_to) = IsAbsolute(m.destination)
    /\ Parts(m.move_to) =
          Parts(m.destination) \o ExpectedComponents(m.template, m.context)

\* C6 (as stated): for every audio file moved by move_file and every render
\* context, the directory components of the resulting path below the
\* destination root are exactly the template's literal directory segments
\* with their placeholders substituted, separators coming from the template
\* only, and the file name holds no separator.
C6_AudioKeepsTemplateDirectories ==
    (moved.called /\ moved.audio) => KeepsTemplateDirectories(moved)

\* C7 (as stated, for the non-audio siblings it includes): a file rendered
\* with the "extra" template is moved to a path inside the destination root
\* in which the destination's and the template's separators are directory
\* boundaries; the path is never collapsed into one segment.
C7_ExtraKeepsDirectories ==
    (moved.called /\ ~moved.audio) =>
        /\ KeepsTemplateDirectories(moved)
        /\ Len(Parts(moved.move_to)) > 1

(***************************************************************************)
(*                        Claims on SpecYear                               *)
(***************************************************************************)

\* A year within [1950, 2030]
Plausible(y) == y \in 1950..2030

\* The in-range years of a sequence of matches, with their positions
PlausibleAt(years) == {i \in 1..Len(years) : years[i] \in 1950..2030}

\* The candidate of a sequence of matches: its earliest in-range year
Earliest(years) ==
    IF PlausibleAt(years) = {} THEN NoYear
    ELSE years[CHOOSE i \in PlausibleAt(years) : \A j \in PlausibleAt(years) : i <= j]

\* The in-range candidate of each of the six levels of the cascade, NoYear
\* when the level has none
LevelCandidate(page) ==
    <<IF Plausible(page.credits) THEN page.credits ELSE NoYear,
      Earliest(page.meta),
      Earliest(<<page.release_date, page.publish_date>>),
      Earliest(page.json_ld),
      LET lit == {y \in page.text_years : y \in 1950..2029}
      IN  IF lit = {} THEN NoYear ELSE CHOOSE y \in lit : \A z \in lit : z <= y,
      Earliest(page.copyright_sign \o page.copyright_word)>>

DigitRuns(name) ==
    {<<b, e>> \in (1..Len(name)) \X (1..Len(name)) :
        /\ b <= e
        /\ \A k \in b..e : name[k] \in Digits
        /\ b = 1 \/ name[b - 1] \notin Digits
        /\ e = Len(name) \/ name[e + 1] \notin Digits}

\* The number a run of digits spells
RunNumber(name, r) == IntOf(SubSeq(name, r[1], r[2]))

\* The first track of the list that carries the number, 0 if none does
FirstNumbered(tracks, n) ==
    IF \A i \in 1..Len(tracks) : tracks[i].number # n THEN 0
    ELSE CHOOSE i \in 1..Len(tracks) :
            /\ tracks[i].number = n
            /\ \A j \in 1..(i - 1) : tracks[j].number # n

\* C9 (as stated): when the base name contains a digit sequence and a track
\* of the list has that number, the matcher returns the first track with
\* that number, whatever the titles are.
C9_AnyDigitRunWins ==
    matched.called =>
        \A r \in DigitRuns(matched.stem) :
            FirstNumbered(matched.tracks, RunNumber(matched.stem, r)) # 0 =>
                matched.track = FirstNumbered(matched.tracks, RunNumber(matched.stem, r))

\* C9 (amended): when the FIRST run of digits of the base name is the number
\* of a track of the list, the matcher returns the first track with that
\* number, whatever the titles are; later digit runs are not looked at.
C9_FirstDigitRunWins ==
    matched.called =>
        \A r \in DigitRuns(matched.stem) :
            (/\ \A q \in DigitRuns(matched.stem) : r[1] <= q[1]
             /\ FirstNumbered(matched.tracks, RunNumber(matched.stem, r)) # 0)
            => matched.track = FirstNumbered(matched.tracks, RunNumber(matched.stem, r))

\* C9 witness: the name 07A holds the title of the first track (a), whose
\* number is 2, and the second track, numbered 7, was returned
C9_Witness ==
    /\ matched.called
    /\ matched.stem = <<"0", "7", "A">>
    /\ matched.tracks = <<[number |-> 2, title |-> <<"a">>],
                          [number |-> 7, title |-> <<"b">>]>>
    /\ _fuzzy_match(LowerStr(matched.stem), matched.tracks[1].title)
    /\ matched.track = 2

(***************************************************************************)
(*                         Claims on SpecPoll                              *)
(***************************************************************************)

\* The call is over: it returned the link or raised
PollOver == poll \in {"returned", "timed_out", "request_failed"}

\* Every pass sleeps one unit and checks the mailbox once; the time slept
\* and the number of mailbox checks never exceed the timeout
PollWithinTimeout ==
    /\ checks = time_sleeping
    /\ time_sleeping <= timeout
    /\ poll = "returned" => msgs > 0
    /\ poll = "timed_out" => msgs = 0

\* C10: the email poll loop always terminates and is bounded by the timeout:
\* each pass sleeps one unit and then checks the mailbox once, a message
\* ends the loop with the link returned, no message ever ends it with the
\* "email not received" failure, and the time slept before that failure does
\* not exceed the timeout (no sleep or mailbox check once it has elapsed).
C10_PollTerminatesWithinTimeout == []PollWithinTimeout /\ <>PollOver

\* The loop does end, whatever the mailbox does
PollTerminates == <>PollOver

\* What the loop does keep to: one unit more than the timeout
PollWithinTimeoutPlusOne ==
    /\ checks = time_sleeping
    /\ time_sleeping <= timeout + 1
    /\ poll = "returned" => msgs > 0
    /\ poll = "timed_out" => msgs = 0 /\ time_sleeping = timeout + 1

(***************************************************************************)
(*                       Claims on SpecFallback                            *)
(***************************************************************************)

\* The tracks of the call that have a preview stream, in order
Previewed == SelectSeq(named.track_info, LAMBDA t : t.file)

\* The two characters NN of a track: its number, or 01 without one
TwoDigits(track) ==
    LET n == IF track.track_num = <<>> THEN 1 ELSE track.track_num[1]
    IN  <<DigitChar((n \div 10) % 10), DigitChar(n % 10)>>

\* C12: the track-number part of every file name of the fallback procedure
\* is a two-digit zero-padded number: the track's own number, or 01 when the
\* track has none.
C12_TrackNumberTwoDigits ==
    named.called =>
        \A k \in 1..Len(named.file_paths) :
            /\ Len(named.file_paths[k].track_num) = 2
            /\ named.file_paths[k].track_num = TwoDigits(named.file_paths[k].track)

\* C13: without a release-level title, the k-th file name of the fallback
\* procedure carries the title of the k-th track that has a preview stream.
C13_NameUsesOwnTitle ==
    (named.called /\ named.title = <<>>) =>
        /\ Len(named.file_paths) = Len(Previewed)
        /\ \A k \in 1..Len(named.file_paths) :
              /\ named.file_paths[k].title = Previewed[k].title
              /\ named.file_paths[k].name =
                    FallbackName(named.artist, named.album,
                                 named.file_paths[k].track_num,
                                 Previewed[k].title)

\* What does hold for numbered tracks: the number is padded to two digits
NumberedTwoDigits ==
    named.called =>
        \A k \in 1..Len(named.file_paths) :
            named.file_paths[k].track.track_num # <<>> =>
                named.file_paths[k].track_num = TwoDigits(named.file_paths[k].track)

\* What does hold for titles: every name carries the title of the first
\* track that has a preview stream
NameUsesFirstTitle ==
    (named.called /\ named.title = <<>>) =>
        \A k \in 1..Len(named.file_paths) :
            named.file_paths[k].title = Previewed[1].title

(***************************************************************************)
(*                         Claims on SpecFree                              *)
(***************************************************************************)

\* The requested formats, in order
Requested == [i \in 1..Len(freed.requests) |-> freed.requests[i].fmt]

\* The requested formats whose outcome is one of a set
RequestedWith(outcomes) ==
    {freed.requests[i].fmt :
        i \in {j \in 1..Len(freed.requests) : freed.requests[j].outcome \in outcomes}}

\* The formats an error of one kind was reported for
Reported(message) ==
    {e[1] : e \in {x \in Range(freed.outcome.errors) : x[2] = message}}

\* Every requested format was attempted, absent formats and odd stat
\* results were skipped with a warning, and the outcome has at most one
\* entry per requested format of the mapping
FormatsIsolated ==
    /\ freed.outcome.attempted = Requested
    /\ RequestedWith({"absent"}) = Reported("download not found")
    /\ RequestedWith({"stat_other"}) = Reported("Error downloading")
    /\ \A f \in Range(Requested) :
          Cardinality({i \in 1..Len(freed.outcome.downloaded_paths) :
                          freed.outcome.downloaded_paths[i].fmt = f})
             <= (IF f \in RequestedWith({"absent"}) THEN 0 ELSE 1)

\* C14: in _free_download every requested format is attempted in turn; an
\* absent format and an odd stat result are skipped with a warning; a failure
\* while processing one format, a failed stat or download request included,
\* neither aborts the release nor keeps the remaining formats from being
\* attempted; the outcome has at most one entry per format of the mapping.
C14_FormatFailuresIsolated ==
    freed.called => (~freed.outcome.raised /\ FormatsIsolated)

\* What does hold: the formats are isolated as long as no request raises
FormatsIsolatedUnlessRequestRaises ==
    (freed.called /\ RequestedWith({"stat_raises", "download_raises"}) = {})
        => (~freed.outcome.raised /\ FormatsIsolated)

(***************************************************************************)
(*                        Claims on SpecExtract                            *)
(***************************************************************************)

\* The extractor did not determine its field
Undetermined(field) == field.raises \/ field.value = <<>>

\* The page fetch failed, or the title or the artist cannot be determined
ExtractionMustFail(page) ==
    \/ page.fetch # "ok"
    \/ Undetermined(page.album_title)
    \/ Undetermined(page.artist_name)

\* C17: the field extractors of extract_album_metadata are isolated: when
\* the year or the track-list extractor raises, that field is absent and the
\* result still carries the artist, the album and the other field; no
\* metadata is returned only when the fetch fails or the title or the artist
\* cannot be determined.
C17_ExtractorsIsolated ==
    album_metadata.called =>
        LET page == album_metadata.page
            result == album_metadata.result
        IN  /\ (result = <<>>) <=> ExtractionMustFail(page)
            /\ result # <<>> =>
                  /\ result[1].artist = page.artist_name.value[1]
                  /\ result[1].album = page.album_title.value[1]
                  /\ result[1].year = page.release_year.value
                  /\ result[1].tracks = page.tracks.value

\* What does hold: no metadata is returned exactly when the fetch fails,
\* the title or the artist is undetermined, or ANY extractor raises
ExtractionFailsOnAnyRaise ==
    album_metadata.called =>
        LET page == album_metadata.page
        IN  (album_metadata.result = <<>>) <=>
               \/ ExtractionMustFail(page)
               \/ page.release_year.raises
               \/ page.tracks.raises

(***************************************************************************)
(*                         Claims on SpecPlace                             *)
(***************************************************************************)

RECURSIVE CountChildren(_)
\* The number of files the entries of a list hold
CountChildren(list) ==
    IF list = <<>> THEN 0
    ELSE Len(Head(list).children) + CountChildren(Tail(list))

\* Every file of the release has been moved into its final position
AllPlaced ==
    /\ entries = <<>>
    /\ temp = {}
    /\ Len(moved_files) = CountChildren(job.file_paths)

\* The cover files on disk after the k-th call of the cover step
CoversAfter(k) ==
    IF k = Len(cover_log) THEN covers ELSE cover_log[k + 1].before

\* The directory a path lies in: its components but the last
DirectoryOf(path) ==
    LET parts == Parts(path)
        up == JoinParts(SubSeq(parts, 1, Len(parts) - 1))
    IN  IF IsAbsolute(path) THEN <<"/">> \o up
        ELSE IF up = <<>> THEN <<".">> ELSE up

\* The cover.png next to the first placed file
CoverTarget == DirectoryOf(moved_files[1]) \o <<"/">> \o <<"cover.png">>

\* C11: the cover step runs only after all files of the release have been
\* placed; it targets cover.png in the parent directory of the first placed
\* file; it does nothing when no file was placed or there is no art URL; when
\* cover.png is there already it fetches nothing and leaves the file as it
\* is, so a run after a successful run fetches nothing.
C11_CoverIdempotentAfterPlacement ==
    \A k \in 1..Len(cover_log) :
        /\ AllPlaced
        /\ cover_log[k].fetched =>
              /\ job.art_url
              /\ moved_files # <<>>
              /\ cover_log[k].cover_path = CoverTarget
        /\ (~job.art_url \/ moved_files = <<>>) =>
              /\ ~cover_log[k].fetched
              /\ CoversAfter(k) = cover_log[k].before
        /\ (moved_files # <<>>
            /\ \E c \in cover_log[k].before : c.path = CoverTarget) =>
              /\ ~cover_log[k].fetched
              /\ CoversAfter(k) = cover_log[k].before
        /\ (\E e \in 1..(k - 1) : cover_log[e].saved) => ~cover_log[k].fetched

\* C11 witness: the first run fetched and saved the cover, the second run
\* found it and fetched nothing
C11_Witness ==
    /\ Len(cover_log) = 2
    /\ cover_log[1].fetched /\ cover_log[1].saved
    /\ cover_log[2].existed /\ ~cover_log[2].fetched
    /\ covers = CoversAfter(1)

\* The exceptions that leave download_from_url during placement
PlaceExceptions == {"KeyError", "UnboundLocalError"}

\* C15: metadata writing starts only after every downloaded file has been
\* moved into its final position; a failure or an exception while writing to
\* one audio file neither stops the writing for the remaining audio files,
\* nor undoes a placement, nor keeps the cover step from running; the success
\* count is the number of audio files whose write succeeded.
C15_MetadataAfterPlacementPerFile ==
    /\ (writes # <<>> \/ place_pc \in {"metadata", "cover", "done"}) => AllPlaced
    /\ place_pc \in {"cover", "done"} =>
          Len(writes) = Cardinality({i \in 1..Len(moved_files) :
                                       Suffix(moved_files[i]) \in suffix_to_metadata})
    /\ success_count = Cardinality({i \in 1..Len(writes) : writes[i] = "True"})
    /\ place_pc \in PlaceExceptions => writes = <<>>
    /\ cover_log # <<>> =>
          Len(writes) = Cardinality({i \in 1..Len(moved_files) :
                                       Suffix(moved_files[i]) \in suffix_to_metadata})

\* C15 witness: the write to the first audio file raised, the write to the
\* second one succeeded and was counted, and the cover step ran
C15_Witness ==
    /\ place_pc = "done"
    /\ writes = <<"raises", "True">>
    /\ success_count = 1
    /\ cover_log # <<>>
    /\ AllPlaced

\* The path move_file renders for a file from the release-level context
RendersFresh(file) ==
    Renders(file, job.output, job.output_extra, job.context)

\* C16: the render context is built fresh for each file: every move_file call
\* of a release is handed the release-level context, unchanged by the moves
\* before it, so the path of a file depends only on the release-level values
\* and the file's own values.
C16_ContextFreshPerFile ==
    \A k \in 1..Len(placed) :
        /\ placed[k].context = job.context
        /\ RendersFresh(placed[k].file)
        /\ placed[k].move_to =
              move_file(placed[k].file, job.destination, job.output,
                        job.output_extra, job.context).move_to

\* The weaker half of C16 alone: the paths are those a fresh context gives
PathsAsFromFreshContext ==
    \A k \in 1..Len(placed) :
        /\ RendersFresh(placed[k].file)
        /\ placed[k].move_to =
              move_file(placed[k].file, job.destination, job.output,
                        job.output_extra, job.context).move_to

\* download_from_url is over, with or without an exception
ReleaseFinished == place_pc \in {"metadata", "cover", "done"} \cup PlaceExceptions

\* C18: when download_from_url finishes a release, every temporary artifact
\* of the strategy is gone (each extracted directory removed after its
\* children were moved, each single file moved), nothing temporary remains
\* in the destination, and every moved file's final path appears exactly
\* once in the list handed to metadata writing.
C18_TemporariesScoped ==
    ReleaseFinished =>
        /\ temp = {}
        /\ \A i, k \in 1..Len(moved_files) :
              i # k => moved_files[i] # moved_files[k]

\* What does hold when the placement loop ends without an exception: the
\* temporaries are gone and every move put its path on the list
TemporariesGoneWhenFinished ==
    place_pc \in {"metadata", "cover", "done"} =>
        /\ temp = {}
        /\ Len(moved_files) = CountChildren(job.file_paths)
        /\ moved_files = [k \in 1..Len(placed) |-> placed[k].move_to]

\* The entries the loop has gone through
Processed == 1..(Len(job.file_paths) - Len(entries))

\* C19: an entry that is a directory without children is gone through
\* without error: no file is moved, the directory is removed, and the release
\* goes on with the remaining entries, the metadata and the cover step.
C19_EmptyDirectoryHarmless ==
    /\ place_pc # "UnboundLocalError"
    /\ \A i \in Processed :
          (job.file_paths[i].is_dir /\ job.file_paths[i].children = <<>>)
             => i \notin temp

\* What does hold: an empty directory that comes after a moved file is
\* removed and the release goes on
EmptyDirectoryAfterAFileHarmless ==
    /\ place_pc = "UnboundLocalError" => moved_files = <<>>
    /\ \A i \in Processed :
          (job.file_paths[i].is_dir /\ job.file_paths[i].children = <<>>)
             => i \notin temp

====
